---- MODULE Spec2Model ----
\* Model of qibo's TensorflowDistributedCircuit (src/distcircuit.py):
\* the gate scheduler (set_gates), the state arena (_split, _merge, _swap),
\* the global_qubits property and the execute driver with its per-device
\* joblib tasks.
EXTENDS Integers, Sequences, FiniteSets, TLC

\* ------------------------------------------------------------------
\* Bounds of the model
\* ------------------------------------------------------------------
\* longest gate sequence of a circuit that is executed
MaxGates == 2
\* longest gate sequence handed to the scheduler alone
MaxSchedGates == 3
\* number of execute calls on one circuit
MaxCalls == 2
\* largest number of qubits of the state arena specification
MaxArenaQubits == 3

\* ------------------------------------------------------------------
\* Arithmetic and list helpers (python built-ins used by the source)
\* ------------------------------------------------------------------
RECURSIVE Pow2(_)
Pow2(n) == IF n <= 0 THEN 1 ELSE 2 * Pow2(n - 1)

Log2(d) == CHOOSE g \in 0..d : Pow2(g) = d

RECURSIVE Sum(_)
Sum(s) == IF s = <<>> THEN 0 ELSE Head(s) + Sum(Tail(s))

Range(s) == {s[i] : i \in DOMAIN s}

Min(S) == CHOOSE m \in S : \A x \in S : m <= x

\* list(sorted(S))
RECURSIVE sorted(_)
sorted(S) == IF S = {} THEN <<>> ELSE <<Min(S)>> \o sorted(S \ {Min(S)})

\* python slices s[:k] and s[k:] for k >= 0
SliceTo(s, k) == SubSeq(s, 1, IF k < Len(s) THEN k ELSE Len(s))
SliceFrom(s, k) == SubSeq(s, k + 1, Len(s))

\* value of tensor axis q (qubit q) in the flat index j of an n-qubit state
Bit(j, q, n) == (j \div Pow2(n - 1 - q)) % 2

\* ------------------------------------------------------------------
\* State
\* ------------------------------------------------------------------
VARIABLES
  nqubits,                  \* self.nqubits
  calc_devices,             \* self.calc_devices: number of pieces per device, in dict order
  queue,                    \* self.queue: the gates added to the circuit
  measurement_gate,         \* TRUE iff self.measurement_gate is not None
  global_qubits_list,       \* self.global_qubits_list
  queues,                   \* self.queues: device -> group -> reduced gates
  pieces,                   \* self.pieces (<<>> is None)
  gq_set,                   \* TRUE iff self._global_qubits is not None
  gq,                       \* self._global_qubits
  local_qubits,             \* self._local_qubits
  transpose_order,          \* self.transpose_order
  reverse_transpose_order,  \* self.reverse_transpose_order
  pc,                       \* position of the controlling thread
  args,                     \* arguments of the execute call in progress
  group,                    \* loop index of execute's loop over the groups
  task,                     \* device -> state of its _device_job
  outcome,                  \* what the last finished operation returned or raised
  ncalls,                   \* number of execute calls made
  sg_queues,                \* set_gates: local list `queues`
  sg_gate,                  \* set_gates: position of `gate` in self.queue
  sg_ret,                   \* who called set_gates
  nswaps,                   \* history: group -> number of swaps made to its layout in this call
  touched,                  \* history: piece -> devices whose task used it in this round
  full                      \* history: the full state last handed to _split

vars == <<nqubits, calc_devices, queue, measurement_gate, global_qubits_list,
          queues, pieces, gq_set, gq, local_qubits, transpose_order,
          reverse_transpose_order, pc, args, group, task, outcome, ncalls,
          sg_queues, sg_gate, sg_ret, nswaps, touched, full>>

config == <<nqubits, calc_devices, queue, measurement_gate>>
sgvars == <<sg_queues, sg_gate, sg_ret>>
gqvars == <<gq_set, gq, local_qubits, transpose_order, reverse_transpose_order>>
schedule == <<global_qubits_list, queues>>

\* __init__
ndevices == Sum(calc_devices)
nglobal == Log2(ndevices)
nlocal == nqubits - nglobal
Devices == 1..Len(calc_devices)
all_qubits == 0..(nqubits - 1)


\* ------------------------------------------------------------------
\* global_qubits property and setter
\* ------------------------------------------------------------------
\* variant of revert: the order itself is taken as its own inverse
revertAsIs(order) == order

\* reverse_transpose_order[v] = i for every i, v in enumerate(order)
revert(order) ==
  [v \in 1..Len(order) |-> CHOOSE i \in 0..(Len(order) - 1) : order[i + 1] = v - 1]

\* the guard of the setter: the length of the given sequence
GlobalQubitsAccepted(x) == Len(x) = nglobal

\* variant of GlobalQubitsFields: the local qubits come first in transpose_order
GlobalQubitsFieldsLocalFirst(x) ==
  LET g == Range(x)
      l == sorted(all_qubits \ g)
      t == l \o sorted(g)
  IN [gq |-> g, local_qubits |-> l, transpose_order |-> t,
      reverse_transpose_order |-> revert(t)]

\* the fields the setter writes for an accepted sequence x
GlobalQubitsFields(x) ==
  LET g == Range(x)
      l == sorted(all_qubits \ g)
      t == sorted(g) \o l
  IN [gq |-> g, local_qubits |-> l, transpose_order |-> t,
      reverse_transpose_order |-> revert(t)]

SetGlobalQubits(x) ==
  /\ gq_set' = TRUE
  /\ gq' = GlobalQubitsFields(x).gq
  /\ local_qubits' = GlobalQubitsFields(x).local_qubits
  /\ transpose_order' = GlobalQubitsFields(x).transpose_order
  /\ reverse_transpose_order' = GlobalQubitsFields(x).reverse_transpose_order

\* ------------------------------------------------------------------
\* State arena: split, merge, swap
\* ------------------------------------------------------------------
\* flat index read by position j of the transposed tensor: axis i of the
\* result is axis order[i] of the input
RECURSIVE SrcIndex(_, _, _, _)
SrcIndex(j, n, order, i) ==
  IF i = n THEN 0
  ELSE Bit(j, i, n) * Pow2(n - 1 - order[i + 1]) + SrcIndex(j, n, order, i + 1)

\* op.transpose_state(state, nqubits, order)
transpose_state(state, n, order) ==
  [j \in 1..Len(state) |-> state[SrcIndex(j - 1, n, order, 0) + 1]]

\* tf.reshape(state, self.device_shape)[i]
Row(state, i) == SubSeq(state, i * Pow2(nlocal) + 1, (i + 1) * Pow2(nlocal))

\* tf.concat([s[tf.newaxis] for s in states], axis=0), flattened
RECURSIVE Concat(_)
Concat(states) == IF states = <<>> THEN <<>> ELSE Head(states) \o Concat(Tail(states))

\* the pieces _split assigns for the full state `state`
split(state, order) ==
  LET t == transpose_state(state, nqubits, order)
  IN [i \in 1..ndevices |-> Row(t, i - 1)]

\* _merge(states)
merge(states, reverse_order) ==
  transpose_state(Concat(states), nqubits, reverse_order)

\* self._merge(self.pieces) under the current reverse transpose order
MergedState == merge(pieces, reverse_transpose_order)

\* variant of SwapOrder: the layout of the current pieces is ignored
SwapOrderFromFullState(old_reverse, new_order) == new_order

\* the permutation _swap applies to the stacked pieces
SwapOrder(old_reverse, new_order) ==
  [i \in 1..Len(new_order) |-> old_reverse[new_order[i] + 1]]

\* the pieces after _swap(new_global_qubits)
swap(states, old_reverse, new_order) ==
  LET b == transpose_state(Concat(states), nqubits, SwapOrder(old_reverse, new_order))
  IN [i \in 1..ndevices |-> Row(b, i - 1)]


\* ------------------------------------------------------------------
\* Gates
\* ------------------------------------------------------------------
\* a gate is its target_qubits and control_qubits, both ascending tuples
Gate(t, c) == [target_qubits |-> sorted(t), control_qubits |-> sorted(c)]

\* set(gate.target_qubits) of the gate at position p of self.queue
Targets(p) == Range(queue[p].target_qubits)

\* number of global qubits that precede qubit q
ReductionNumber(q, global_qubits) ==
  Cardinality({g \in Range(global_qubits) : g < q})

\* calc_gate.reduce(global_qubits) for the gate at position p; the copy keeps
\* original_gate and gets nqubits = nlocal
reduce(p, global_qubits) ==
  LET g == queue[p]
      r(qs) == [i \in 1..Len(qs) |-> qs[i] - ReductionNumber(qs[i], global_qubits)]
  IN [target_qubits |-> r(g.target_qubits),
      control_qubits |-> r(g.control_qubits),
      original_gate |-> p]

\* ------------------------------------------------------------------
\* set_gates
\* ------------------------------------------------------------------
\* variant of ConsumeWhileLarge: the loop runs while len(global_qubits) >= nglobal
RECURSIVE ConsumeWhileAtLeast(_, _, _)
ConsumeWhileAtLeast(p, g, grp) ==
  IF Cardinality(g) >= nglobal
  THEN IF p = Len(queue)
       THEN [stop |-> TRUE, p |-> p, g |-> g, grp |-> Append(grp, p)]
       ELSE ConsumeWhileAtLeast(p + 1, g \ Targets(p + 1), Append(grp, p))
  ELSE [stop |-> FALSE, p |-> p, g |-> g, grp |-> grp]

\* inner loop `while len(global_qubits) > self.nglobal`; g is global_qubits
\* with the targets of gate p already removed, grp is queues[-1]
RECURSIVE ConsumeWhileLarge(_, _, _)
ConsumeWhileLarge(p, g, grp) ==
  IF Cardinality(g) > nglobal
  THEN IF p = Len(queue)
       THEN [stop |-> TRUE, p |-> p, g |-> g, grp |-> Append(grp, p)]
       ELSE ConsumeWhileLarge(p + 1, g \ Targets(p + 1), Append(grp, p))
  ELSE [stop |-> FALSE, p |-> p, g |-> g, grp |-> grp]

\* variant of ConsumeWhileDisjoint: the gates the loop passes are not appended
RECURSIVE ConsumeWhileDisjointDropping(_, _, _)
ConsumeWhileDisjointDropping(p, g, grp) ==
  IF Targets(p) \cap g = {}
  THEN IF p = Len(queue)
       THEN [stop |-> TRUE, p |-> p, g |-> g, grp |-> grp]
       ELSE ConsumeWhileDisjointDropping(p + 1, g, grp)
  ELSE [stop |-> FALSE, p |-> p, g |-> g, grp |-> grp]

\* inner loop `while not set(gate.target_qubits) & global_qubits`
RECURSIVE ConsumeWhileDisjoint(_, _, _)
ConsumeWhileDisjoint(p, g, grp) ==
  IF Targets(p) \cap g = {}
  THEN IF p = Len(queue)
       THEN [stop |-> TRUE, p |-> p, g |-> g, grp |-> Append(grp, p)]
       ELSE ConsumeWhileDisjoint(p + 1, g, Append(grp, p))
  ELSE [stop |-> FALSE, p |-> p, g |-> g, grp |-> grp]

\* the else branch: global_qubits |= set(free_qubits[self.nglobal - len(global_qubits):])
PadGlobalQubits(g, target_qubits) ==
  g \cup Range(SliceFrom(sorted(target_qubits), nglobal - Cardinality(g)))

\* one pass of the body of `while True` that starts at gate p with
\* global_qubits = all_qubits; stop is TRUE when next(queue) raised StopIteration
GroupPass(p) ==
  LET a == ConsumeWhileLarge(p, all_qubits \ Targets(p), <<>>)
  IN IF a.stop THEN a
     ELSE IF Cardinality(a.g) = nglobal
     THEN IF a.p = Len(queue)
          THEN [stop |-> TRUE, p |-> a.p, g |-> a.g, grp |-> Append(a.grp, a.p)]
          ELSE ConsumeWhileDisjoint(a.p + 1, a.g, Append(a.grp, a.p))
     ELSE [stop |-> FALSE, p |-> a.p, g |-> PadGlobalQubits(a.g, Targets(a.p)),
           grp |-> a.grp]

\* the except StopIteration branch: the last entry of global_qubits_list
LastGlobalQubits(g) ==
  IF Cardinality(g) > nglobal THEN SliceTo(sorted(g), nglobal) ELSE sorted(g)

\* the "compile" loop over zip(self.global_qubits_list, queues): what is
\* appended to self.queues[device]
CompiledQueues(gql, qs) ==
  LET n == IF Len(gql) < Len(qs) THEN Len(gql) ELSE Len(qs)
  IN [k \in 1..n |-> [i \in 1..Len(qs[k]) |-> reduce(qs[k][i], gql[k])]]

\* the scheduling loop is followed until it has emitted more groups than
\* the circuit has gates
GroupCap == Len(queue) + 1

ReplaceLast(qs, grp) == [qs EXCEPT ![Len(qs)] = grp]

Outcome(op, status, value) == [op |-> op, status |-> status, value |-> value]

\* variant of NoGatesAvailable: set_gates returns without raising
NoGatesIgnored(op) == Outcome(op, "ok", <<>>)

\* `if not self.queue: raise RuntimeError`, in operation op
NoGatesAvailable(op) == Outcome(op, "RuntimeError", <<>>)

\* set_gates called on its own
SetGatesCall ==
  /\ pc = "idle"
  /\ ncalls = 0
  /\ ncalls' = ncalls + 1
  /\ IF queue = <<>>
     THEN /\ outcome' = NoGatesAvailable("set_gates")
          /\ UNCHANGED <<pc, sgvars>>
     ELSE /\ pc' = "set_gates"
          /\ sg_queues' = << <<>> >>
          /\ sg_gate' = 1
          /\ sg_ret' = "caller"
          /\ outcome' = Outcome("set_gates", "running", <<>>)
  /\ UNCHANGED <<config, schedule, pieces, gqvars, args, group, task, nswaps,
                 touched, full>>

\* one pass of `while True` that closes a group
SetGatesCloseGroup ==
  /\ pc = "set_gates"
  /\ Len(global_qubits_list) < GroupCap
  /\ LET r == GroupPass(sg_gate)
     IN /\ ~r.stop
        /\ sg_queues' = Append(ReplaceLast(sg_queues, r.grp), <<>>)
        /\ global_qubits_list' = Append(global_qubits_list, sorted(r.g))
        /\ sg_gate' = r.p
  /\ UNCHANGED <<config, queues, pieces, gqvars, pc, args, group, task, outcome,
                 ncalls, sg_ret, nswaps, touched, full>>

\* the pass that ends in StopIteration, and the compile loop
SetGatesFinish ==
  /\ pc = "set_gates"
  /\ Len(global_qubits_list) < GroupCap
  /\ LET r == GroupPass(sg_gate)
         qs == ReplaceLast(sg_queues, r.grp)
         gql == Append(global_qubits_list, LastGlobalQubits(r.g))
     IN /\ r.stop
        /\ sg_queues' = qs
        /\ global_qubits_list' = gql
        /\ queues' = [d \in Devices |-> queues[d] \o CompiledQueues(gql, qs)]
        /\ sg_gate' = Len(queue) + 1
  /\ IF sg_ret = "execute"
     THEN pc' = "init" /\ UNCHANGED outcome
     ELSE pc' = "idle" /\ outcome' = Outcome("set_gates", "ok", <<>>)
  /\ UNCHANGED <<config, pieces, gqvars, args, group, task, ncalls, sg_ret,
                 nswaps, touched, full>>


\* ------------------------------------------------------------------
\* Initial states
\* ------------------------------------------------------------------
SeqsUpTo(A, n) == UNION {[1..k -> A] : k \in 0..n}

\* the state __init__ leaves for nqubits n, calc_devices cd, and the circuit's
\* gates q (m: a measurement gate was added)
Constructed(n, cd, q, m) ==
  /\ nqubits = n
  /\ calc_devices = cd
  /\ queue = q
  /\ measurement_gate = m
  /\ global_qubits_list = <<>>
  /\ queues = [d \in 1..Len(cd) |-> <<>>]
  /\ pieces = <<>>
  /\ gq_set = FALSE
  /\ gq = {}
  /\ local_qubits = <<>>
  /\ transpose_order = <<>>
  /\ reverse_transpose_order = <<>>
  /\ pc = "idle"
  /\ args = [initial_state |-> <<>>, nshots |-> 0, callback |-> FALSE]
  /\ group = 0
  /\ task = [d \in 1..Len(cd) |-> [status |-> "none", group |-> 0, pos |-> 0]]
  /\ outcome = Outcome("init", "ok", <<>>)
  /\ ncalls = 0
  /\ sg_queues = <<>>
  /\ sg_gate = 0
  /\ sg_ret = "none"
  /\ nswaps = <<>>
  /\ touched = [i \in 1..Sum(cd) |-> {}]
  /\ full = <<>>

\* circuits handed to the scheduler alone: <<nqubits, calc_devices>>
SchedConfigs == {<<2, <<1, 1>> >>, <<3, <<1, 1>> >>, <<3, <<2, 2>> >>, <<4, <<1, 1>> >>}

\* gates on up to three targets, and single-target gates with one control
SchedGates(n) ==
  {Gate(T, {}) : T \in {S \in SUBSET (0..(n - 1)) : Cardinality(S) \in 1..3}}
  \cup {Gate({t}, {(t + 1) % n}) : t \in 0..(n - 1)}

\* the circuit of scenario A: three qubits, two devices, single-qubit gates
\* on qubits 0, 1, 2, 0
ScenarioAQueue == <<Gate({0}, {}), Gate({1}, {}), Gate({2}, {}), Gate({0}, {})>>

InitSched ==
  \/ \E c \in SchedConfigs :
       \E q \in SeqsUpTo(SchedGates(c[1]), MaxSchedGates) :
         Constructed(c[1], c[2], q, FALSE)
  \/ Constructed(3, <<1, 1>>, ScenarioAQueue, FALSE)

NextSched == SetGatesCall \/ SetGatesCloseGroup \/ SetGatesFinish

SpecSched == InitSched /\ [][NextSched]_vars


\* ------------------------------------------------------------------
\* Gate application on a state of n qubits
\* ------------------------------------------------------------------
Flip(j, q, n) ==
  IF Bit(j, q, n) = 1 THEN j - Pow2(n - 1 - q) ELSE j + Pow2(n - 1 - q)

RECURSIVE FlipAll(_, _, _)
FlipAll(j, qs, n) ==
  IF qs = <<>> THEN j ELSE FlipAll(Flip(j, Head(qs), n), Tail(qs), n)

\* the gate's qubits are distinct axes of the n-qubit tensor; the call of a
\* gate whose reduced indices name no axis, or one axis twice, fails in the
\* transpose/einsum of the call
GateFits(g, n) ==
  LET qs == g.control_qubits \o g.target_qubits
  IN /\ \A i \in DOMAIN qs : qs[i] \in 0..(n - 1)
     /\ \A i, k \in DOMAIN qs : i # k => qs[i] # qs[k]

\* gate(state): an X on every target, applied where all controls are 1
ApplyGate(g, n, state) ==
  [j \in 1..Len(state) |->
     IF \A i \in DOMAIN g.control_qubits : Bit(j - 1, g.control_qubits[i], n) = 1
     THEN state[FlipAll(j - 1, g.target_qubits, n) + 1]
     ELSE state[j]]

\* _device_execute(state, gates)
RECURSIVE _device_execute(_, _, _)
_device_execute(state, gates, n) ==
  IF gates = <<>> THEN [ok |-> TRUE, state |-> state]
  ELSE IF ~GateFits(Head(gates), n) THEN [ok |-> FALSE, state |-> state]
  ELSE _device_execute(ApplyGate(Head(gates), n, state), Tail(gates), n)

\* the |000...0> state on n qubits and the state with amplitude j+1 at index j
ZeroState(n) == [j \in 1..Pow2(n) |-> IF j = 1 THEN 1 ELSE 0]
Labelled(n) == [j \in 1..Pow2(n) |-> j]

\* the circuit's gates applied in order to an undistributed state
ReferenceState(state) == _device_execute(state, queue, nqubits)

\* _default_initial_state: zero pieces, piece 0 is the |000...0> piece
DefaultPieces ==
  [i \in 1..ndevices |-> IF i = 1 THEN ZeroState(nlocal)
                         ELSE [j \in 1..Pow2(nlocal) |-> 0]]

\* variant of PieceIds: `start` is never advanced
PieceIdsFromStart(d) == 1..calc_devices[d]

\* _joblib_config: the piece ids (1-based) of device d
PieceIds(d) ==
  LET start == Sum(SubSeq(calc_devices, 1, d - 1))
  IN (start + 1)..(start + calc_devices[d])

\* ------------------------------------------------------------------
\* execute
\* ------------------------------------------------------------------
\* arguments of execute: initial_state (<<>> is None), nshots (0 is None),
\* callback (FALSE is None)
ExecArgs ==
  {[initial_state |-> <<>>, nshots |-> 0, callback |-> FALSE],
   [initial_state |-> Labelled(nqubits), nshots |-> 0, callback |-> FALSE],
   [initial_state |-> <<>>, nshots |-> 1, callback |-> FALSE],
   [initial_state |-> <<>>, nshots |-> 0, callback |-> TRUE]}

\* variant of ScheduleBuilt: the schedule is taken as missing at every call
ScheduleNeverBuilt == FALSE

\* `if not self.global_qubits_list` is false: set_gates is skipped
ScheduleBuilt == global_qubits_list # <<>>

\* the call, up to `if not self.global_qubits_list: self.set_gates()`
ExecuteCall(a) ==
  /\ pc = "idle"
  /\ ncalls < MaxCalls
  /\ ncalls' = ncalls + 1
  /\ args' = a
  /\ IF ScheduleBuilt
     THEN /\ pc' = "init"
          /\ outcome' = Outcome("execute", "running", <<>>)
          /\ UNCHANGED sgvars
     ELSE IF queue = <<>>
     THEN /\ outcome' = NoGatesAvailable("execute")
          /\ UNCHANGED <<pc, sgvars>>
     ELSE /\ pc' = "set_gates"
          /\ sg_queues' = << <<>> >>
          /\ sg_gate' = 1
          /\ sg_ret' = "execute"
          /\ outcome' = Outcome("execute", "running", <<>>)
  /\ UNCHANGED <<config, schedule, pieces, gqvars, group, task, nswaps, touched,
                 full>>

\* variant of PiecesInitialized: the check is missing
PiecesNeverInitialized == FALSE

\* _cast_initial_state: `if self.pieces is not None: raise RuntimeError`
PiecesInitialized == pieces # <<>>

\* self.global_qubits = self.global_qubits_list[0]; self._cast_initial_state(...)
\* The setter runs before the check of self.pieces. The branch of
\* _cast_initial_state for an unset global-qubit set cannot be taken here, and
\* the scratch self.buffer holds nothing that is read later.
ExecuteInit ==
  /\ pc = "init"
  /\ LET x == global_qubits_list[1]
     IN IF ~GlobalQubitsAccepted(x)
        THEN /\ outcome' = Outcome("execute", "ValueError", <<>>)
             /\ pc' = "idle"
             /\ UNCHANGED <<gqvars, pieces, group, nswaps, full>>
        ELSE /\ SetGlobalQubits(x)
             /\ IF PiecesInitialized
                THEN /\ outcome' = Outcome("execute", "RuntimeError", <<>>)
                     /\ pc' = "idle"
                     /\ UNCHANGED <<pieces, group, nswaps, full>>
                ELSE /\ IF args.initial_state = <<>>
                        THEN pieces' = DefaultPieces /\ UNCHANGED full
                        ELSE /\ pieces' = split(args.initial_state,
                                                GlobalQubitsFields(x).transpose_order)
                             /\ full' = args.initial_state
                     /\ group' = 0
                     /\ nswaps' = [k \in 1..Len(global_qubits_list) |-> 0]
                     /\ pc' = "launch"
                     /\ UNCHANGED outcome
  /\ UNCHANGED <<config, schedule, args, task, ncalls, sgvars, touched>>

\* _swap(new_global_qubits): the setter, then the transposed pieces
SwapPieces(x) ==
  /\ SetGlobalQubits(x)
  /\ pieces' = swap(pieces, reverse_transpose_order,
                    GlobalQubitsFields(x).transpose_order)

\* `if group > 0: self._swap(global_qubits)`
ExecuteSwap ==
  /\ pc = "swap"
  /\ LET x == global_qubits_list[group + 1]
     IN IF ~GlobalQubitsAccepted(x)
        THEN /\ outcome' = Outcome("execute", "ValueError", <<>>)
             /\ pc' = "idle"
             /\ UNCHANGED <<gqvars, pieces, nswaps>>
        ELSE /\ SwapPieces(x)
             /\ nswaps' = [nswaps EXCEPT ![group + 1] = @ + 1]
             /\ pc' = "launch"
             /\ UNCHANGED outcome
  /\ UNCHANGED <<config, schedule, args, group, task, ncalls, sgvars, touched,
                 full>>

\* _joblib_execute(group): one _device_job per device is handed to the pool
Launch ==
  /\ pc = "launch"
  /\ pc' = "round"
  /\ task' = [d \in Devices |->
                [status |-> IF calc_devices[d] = 0 THEN "done" ELSE "running",
                 group |-> group, pos |-> 0]]
  /\ touched' = [i \in 1..ndevices |-> {}]
  /\ UNCHANGED <<config, schedule, pieces, gqvars, args, group, outcome, ncalls,
                 sgvars, nswaps, full>>

\* one pass of `for i in ids` in the _device_job of device d
TaskStep(d) ==
  /\ pc = "round"
  /\ task[d].status = "running"
  /\ LET i == CHOOSE k \in PieceIds(d) : Cardinality({m \in PieceIds(d) : m < k}) = task[d].pos
         r == _device_execute(pieces[i], queues[d][group + 1], nlocal)
     IN /\ touched' = [touched EXCEPT ![i] = @ \cup {d}]
        /\ IF r.ok
           THEN /\ pieces' = [pieces EXCEPT ![i] = r.state]
                /\ task' = [task EXCEPT ![d].pos = @ + 1,
                                        ![d].status = IF task[d].pos + 1 = calc_devices[d]
                                                      THEN "done" ELSE "running"]
           ELSE /\ task' = [task EXCEPT ![d].status = "failed"]
                /\ UNCHANGED pieces
  /\ UNCHANGED <<config, schedule, gqvars, pc, args, group, outcome, ncalls,
                 sgvars, nswaps, full>>

\* variant of AllJobsEnded: the pool call returns with the first job that ends
SomeJobEnded == \E d \in Devices : task[d].status \in {"done", "failed"}

\* the pool call blocks until every _device_job handed to it has ended, also
\* when one of them raised
AllJobsEnded == \A d \in Devices : task[d].status \in {"done", "failed"}

\* variant of AnyJobFailed: the exception of a _device_job is dropped
NoJobFailureSeen == FALSE

\* the pool call raises the exception of a _device_job that failed
AnyJobFailed == \E d \in Devices : task[d].status = "failed"

\* variant of SamplingRequested: the measurement gate is not looked at
SamplingRequestedByShots == args.nshots # 0

\* `self.measurement_gate is None or nshots is None` is false
SamplingRequested == measurement_gate /\ args.nshots # 0

\* the pool call returns or raises once every _device_job has ended; after
\* the last group execute returns final_state or raises NotImplementedError
Join ==
  /\ pc = "round"
  /\ AllJobsEnded
  /\ IF AnyJobFailed
     THEN /\ outcome' = Outcome("execute", "DeviceTaskError", <<>>)
          /\ pc' = "idle"
          /\ UNCHANGED group
     ELSE IF group + 1 < Len(global_qubits_list)
     THEN /\ group' = group + 1
          /\ pc' = "swap"
          /\ UNCHANGED outcome
     ELSE /\ pc' = "idle"
          /\ UNCHANGED group
          /\ outcome' = IF ~SamplingRequested
                        THEN Outcome("execute", "ok", MergedState)
                        ELSE Outcome("execute", "NotImplementedError", <<>>)
  /\ UNCHANGED <<config, schedule, pieces, gqvars, args, task, ncalls, sgvars,
                 nswaps, touched, full>>

\* ------------------------------------------------------------------
\* Properties read and written by the user
\* ------------------------------------------------------------------
\* variant of GlobalQubitsUnset: the check is missing
GlobalQubitsNeverUnset == FALSE

\* `if self._global_qubits is None: raise ValueError`
GlobalQubitsUnset == ~gq_set

\* final_state: `if self.pieces is None: raise ValueError`
FinalStateUnset == pieces = <<>>

\* circuit.global_qubits
ReadGlobalQubits ==
  /\ pc = "idle"
  /\ outcome' = IF GlobalQubitsUnset THEN Outcome("global_qubits", "ValueError", <<>>)
                ELSE Outcome("global_qubits", "ok", sorted(gq))
  /\ UNCHANGED <<config, schedule, pieces, gqvars, pc, args, group, task, ncalls,
                 sgvars, nswaps, touched, full>>

\* circuit.final_state
ReadFinalState ==
  /\ pc = "idle"
  /\ outcome' = IF FinalStateUnset THEN Outcome("final_state", "ValueError", <<>>)
                ELSE Outcome("final_state", "ok", MergedState)
  /\ UNCHANGED <<config, schedule, pieces, gqvars, pc, args, group, task, ncalls,
                 sgvars, nswaps, touched, full>>

\* _default_global_qubits
_default_global_qubits == [i \in 1..nglobal |-> nlocal + i - 1]

\* the sequences of qubit indices a user assigns: the last nglobal qubits,
\* nglobal times qubit 0, and the first nglobal + 1 qubits
AssignedSeqs ==
  {_default_global_qubits, [i \in 1..nglobal |-> 0], [i \in 1..(nglobal + 1) |-> i - 1]}

\* circuit.global_qubits = x
AssignGlobalQubits(x) ==
  /\ pc = "idle"
  /\ IF ~GlobalQubitsAccepted(x)
     THEN /\ outcome' = Outcome("set_global_qubits", "ValueError", <<>>)
          /\ UNCHANGED gqvars
     ELSE /\ SetGlobalQubits(x)
          /\ outcome' = Outcome("set_global_qubits", "ok", <<>>)
  /\ UNCHANGED <<config, schedule, pieces, pc, args, group, task, ncalls, sgvars,
                 nswaps, touched, full>>

\* ------------------------------------------------------------------
\* Specification of the circuit's life: construction, execute calls, reads
\* ------------------------------------------------------------------
\* <<nqubits, calc_devices>>
Configs ==
  {<<2, <<1, 1>> >>, <<2, <<0, 2>> >>, <<3, <<1, 1>> >>, <<3, <<1, 3>> >>}

\* gates on one or two targets, and single-target gates with one control
ExecGates(n) ==
  {Gate({t, u}, {}) : t \in 0..(n - 1), u \in 0..(n - 1)}
  \cup {Gate({t}, {(t + 1) % n}) : t \in 0..(n - 1)}

Init ==
  \E c \in Configs :
    \E q \in SeqsUpTo(ExecGates(c[1]), MaxGates) :
      \E m \in BOOLEAN :
        Constructed(c[1], c[2], q, m)

Next ==
  \/ \E a \in ExecArgs : ExecuteCall(a)
  \/ SetGatesCall
  \/ SetGatesCloseGroup
  \/ SetGatesFinish
  \/ ExecuteInit
  \/ ExecuteSwap
  \/ Launch
  \/ \E d \in Devices : TaskStep(d)
  \/ Join
  \/ ReadGlobalQubits
  \/ ReadFinalState
  \/ \E x \in AssignedSeqs : AssignGlobalQubits(x)

Spec == Init /\ [][Next]_vars


\* ------------------------------------------------------------------
\* Specification of the state arena alone: a global-qubit set is assigned,
\* a full state is split into pieces, the pieces are swapped between sets
\* ------------------------------------------------------------------
\* every D = 2^G with D <= 2^N, on one device
ArenaConfigs ==
  {<<c[1], <<Pow2(c[2])>> >> :
     c \in {r \in (1..MaxArenaQubits) \X (0..MaxArenaQubits) : r[2] <= r[1]}}

\* full states: distinct amplitudes, its reverse, and the basis states
ArenaStates ==
  {Labelled(nqubits), [j \in 1..Pow2(nqubits) |-> Pow2(nqubits) + 1 - j]}
  \cup {[j \in 1..Pow2(nqubits) |-> IF j = k THEN 1 ELSE 0] : k \in 1..Pow2(nqubits)}

\* the global-qubit sets of size nglobal, as sorted lists
GlobalQubitSets == {sorted(S) : S \in {T \in SUBSET all_qubits : Cardinality(T) = nglobal}}

InitArena == \E c \in ArenaConfigs : Constructed(c[1], c[2], <<>>, FALSE)

\* circuit.global_qubits = x before the pieces exist
ArenaAssign(x) ==
  /\ pieces = <<>>
  /\ AssignGlobalQubits(x)

\* _create_pieces and _split(state)
ArenaSplit(state) ==
  /\ pc = "idle"
  /\ gq_set
  /\ pieces = <<>>
  /\ pieces' = split(state, transpose_order)
  /\ full' = state
  /\ outcome' = Outcome("_split", "ok", <<>>)
  /\ UNCHANGED <<config, schedule, gqvars, pc, args, group, task, ncalls, sgvars,
                 nswaps, touched>>

\* _swap(x) on existing pieces
ArenaSwap(x) ==
  /\ pc = "idle"
  /\ pieces # <<>>
  /\ SwapPieces(x)
  /\ outcome' = Outcome("_swap", "ok", <<>>)
  /\ UNCHANGED <<config, schedule, pc, args, group, task, ncalls, sgvars, nswaps,
                 touched, full>>

NextArena ==
  \/ \E x \in GlobalQubitSets : ArenaAssign(x)
  \/ \E v \in ArenaStates : ArenaSplit(v)
  \/ \E x \in GlobalQubitSets : ArenaSwap(x)
  \/ ReadFinalState

SpecArena == InitArena /\ [][NextArena]_vars


\* ------------------------------------------------------------------
\* Properties
\* ------------------------------------------------------------------
\* set_gates, called on its own, has returned
SetGatesReturned == pc = "idle" /\ outcome = Outcome("set_gates", "ok", <<>>)

\* the first execute call, started from the |000...0> state, has returned a state
FirstExecuteReturned ==
  /\ pc = "idle"
  /\ ncalls = 1
  /\ outcome.op = "execute"
  /\ outcome.status = "ok"
  /\ args.initial_state = <<>>

\* C1: after set_gates has run, every entry of global_qubits_list, the last
\* one included, holds exactly nglobal distinct qubit indices.
C1_GlobalQubitsListSizes ==
  SetGatesReturned =>
    \A k \in DOMAIN global_qubits_list :
      /\ Len(global_qubits_list[k]) = nglobal
      /\ Cardinality(Range(global_qubits_list[k])) = nglobal

\* C2: the state execute returns, started from the all-zero state, is the
\* state the circuit's gates give in order on the undistributed all-zero
\* state of length 2^nqubits.
C2_ExecuteMatchesUndistributed ==
  FirstExecuteReturned => outcome.value = ReferenceState(ZeroState(nqubits)).state

\* C3: a swap to any global-qubit set of size nglobal leaves the merged full
\* state as it was: the state _merge gives after the swap is the state it gave
\* before.
C3_SwapKeepsMergedState ==
  [][(\E x \in GlobalQubitSets : ArenaSwap(x)) => MergedState' = MergedState]_vars

\* C3 witness: a swap has moved the pieces of a state with distinct
\* amplitudes into a layout that is not the full state's own order.
C3_Witness ==
  /\ outcome.op = "_swap"
  /\ full = Labelled(nqubits)
  /\ nglobal >= 1
  /\ gq # Range(_default_global_qubits)
  /\ Concat(pieces) # full

\* C4: _split of a full state v followed by _merge of the pieces gives v.
C4_MergeOfSplit == outcome.op = "_split" => MergedState = full

\* C4 witness: a state with distinct amplitudes was split over several
\* pieces under a global-qubit set that reorders it.
C4_Witness ==
  /\ outcome.op = "_split"
  /\ full = Labelled(nqubits)
  /\ ndevices >= 2
  /\ Concat(pieces) # full

\* C5: the swap to group k (k >= 1) starts only when every device task of
\* group k-1 has finished; a device task of group k exists only after exactly
\* one swap to group k's layout, and none for group 0.
C5_SwapBetweenRounds ==
  /\ pc = "swap" =>
       /\ group >= 1
       /\ \A d \in Devices : task[d].status = "done" /\ task[d].group = group - 1
  /\ \A d \in Devices :
       task[d].status # "none" =>
         nswaps[task[d].group + 1] = (IF task[d].group = 0 THEN 0 ELSE 1)
  /\ pc \in {"launch", "round"} =>
       \A k \in DOMAIN nswaps :
         nswaps[k] = (IF k = 1 \/ k > group + 1 THEN 0 ELSE 1)

\* C5 witness: a device task of the second group runs after the one swap.
C5_Witness ==
  /\ pc = "round"
  /\ group = 1
  /\ nswaps = <<0, 1>>
  /\ \E d \in Devices : task[d].status = "running" /\ task[d].group = 1
  /\ \E d \in Devices : task[d].status = "done" /\ task[d].group = 1

\* C6: every piece id belongs to exactly one device task, and in a round no
\* piece is used by two tasks: each piece is used by its own task only, and by
\* the end of the round by exactly that one.
C6_PiecesDisjoint ==
  /\ \A i \in 1..ndevices : Cardinality({d \in Devices : i \in PieceIds(d)}) = 1
  /\ \A i \in 1..ndevices : \A d \in touched[i] : i \in PieceIds(d)
  /\ \A i \in 1..ndevices : Cardinality(touched[i]) <= 1
  /\ (pc = "round" /\ \A d \in Devices : task[d].status = "done") =>
       \A i \in 1..ndevices : Cardinality(touched[i]) = 1

\* C6 witness: two devices, one piece and three pieces, have ended a round.
C6_Witness ==
  /\ pc = "round"
  /\ calc_devices = <<1, 3>>
  /\ \A d \in Devices : task[d].status = "done"
  /\ touched = <<{1}, {2}, {2}, {2}>>

\* C7: in every group set_gates produced, no gate of the group has a target
\* qubit in the group's recorded global-qubit set.
C7_TargetsAreLocal ==
  SetGatesReturned =>
    \A k \in DOMAIN global_qubits_list :
      \A i \in DOMAIN sg_queues[k] :
        Targets(sg_queues[k][i]) \cap Range(global_qubits_list[k]) = {}

\* C8: whenever the current global-qubit set is set, by execute, by a swap
\* or by assignment of a sequence of qubit indices, it holds exactly nglobal
\* distinct qubits.
C8_GlobalQubitsSize == gq_set => Cardinality(gq) = nglobal

ReadOf(name) == pc = "idle" /\ outcome'.op = name

\* C10: reading global_qubits before a global-qubit set was assigned raises
\* an error, reading final_state before pieces exist raises an error, and
\* neither read changes the circuit.
C10_ReadsBeforeSet ==
  [][/\ (ReadOf("global_qubits") /\ ~gq_set) => outcome'.status = "ValueError"
     /\ (ReadOf("final_state") /\ pieces = <<>>) => outcome'.status = "ValueError"
     /\ (ReadOf("global_qubits") \/ ReadOf("final_state")) =>
          UNCHANGED <<config, schedule, pieces, gqvars, pc, ncalls>>]_vars

\* C10 witness: global_qubits was read, and raised, on a circuit that has
\* neither a global-qubit set nor pieces.
C10_Witness ==
  /\ outcome = Outcome("global_qubits", "ValueError", <<>>)
  /\ ~gq_set
  /\ pieces = <<>>

\* a step in which the user calls set_gates or execute
CallOf(name) == pc = "idle" /\ ncalls' # ncalls /\ outcome'.op = name

\* C11: set_gates, or execute, on a circuit with an empty gate sequence
\* raises an error and leaves global_qubits_list, the per-device queues, the
\* current global-qubit set and the pieces as they were.
C11_EmptyQueueRaises ==
  [][(queue = <<>> /\ (CallOf("set_gates") \/ CallOf("execute"))) =>
       /\ outcome'.status = "RuntimeError"
       /\ pc' = "idle"
       /\ UNCHANGED <<schedule, gqvars, pieces>>]_vars

\* C11 witness: on a circuit without gates whose global-qubit set the user
\* has assigned, set_gates and then execute were called and execute raised.
C11_Witness ==
  /\ queue = <<>>
  /\ ncalls = 2
  /\ outcome = Outcome("execute", "RuntimeError", <<>>)
  /\ gq_set
  /\ pieces = <<>>
  /\ global_qubits_list = <<>>

\* C12: an execute call with a callback argument does not run the circuit:
\* it starts no device task and it does not return a state.
C12_CallbackUnsupported ==
  args.callback =>
    /\ pc \notin {"launch", "round", "swap"}
    /\ (pc = "idle" /\ outcome.op = "execute") => outcome.status # "ok"

C14_FailureEndsExecute ==
  [][(\E d \in Devices : task[d].status = "failed") =>
       /\ nswaps' = nswaps
       /\ group' = group
       /\ pc' \notin {"swap", "launch"}
       /\ \A d \in Devices :
            /\ task'[d].group = task[d].group
            /\ task[d].status \in {"done", "failed"} => task'[d] = task[d]
       /\ (pc = "round" /\ pc' = "idle") =>
            outcome' = Outcome("execute", "DeviceTaskError", <<>>)]_vars

\* C14 witness: execute has ended with the failure of a device task of the
\* first group of a circuit that has a second group.
C14_Witness ==
  /\ pc = "idle"
  /\ outcome = Outcome("execute", "DeviceTaskError", <<>>)
  /\ Len(global_qubits_list) = 2
  /\ group = 0
  /\ \E d \in Devices : task[d].status = "failed"

\* the circuit is the one of scenario A
ScenarioA == nqubits = 3 /\ calc_devices = <<1, 1>> /\ queue = ScenarioAQueue

\* C15: for N=3, D=2 and single-qubit gates g1..g4 on qubits 0, 1, 2, 0 the
\* first group set_gates produces is [g1, g2] with global-qubit set {2}, and
\* every device's first queue holds the copies of g1 and g2.
C15_ScenarioAFirstGroup ==
  /\ (ScenarioA /\ Len(global_qubits_list) >= 1) =>
       /\ global_qubits_list[1] = <<2>>
       /\ sg_queues[1] = <<1, 2>>
  /\ (ScenarioA /\ SetGatesReturned) =>
       \A d \in Devices :
         /\ Len(queues[d][1]) = 2
         /\ queues[d][1][1].original_gate = 1
         /\ queues[d][1][2].original_gate = 2

\* C15 witness: set_gates has returned on the circuit of scenario A, with
\* two groups.
C15_Witness ==
  /\ ScenarioA
  /\ SetGatesReturned
  /\ global_qubits_list = <<<<2>>, <<1>>>>
  /\ sg_queues = <<<<1, 2>>, <<3, 4>>>>

\* C16: global_qubits_list and the per-device queues change only while
\* set_gates runs, and once they are built no call runs set_gates again: a
\* further execute call, a swap and the reads leave them as they are.
C16_ScheduleBuiltOnce ==
  [][/\ pc # "set_gates" => UNCHANGED schedule
     /\ (pc = "idle" /\ global_qubits_list # <<>>) => pc' # "set_gates"]_vars

\* C16 witness: on a circuit with two groups, whose first execute call made
\* a swap, a second execute call has ended.
C16_Witness ==
  /\ pc = "idle"
  /\ ncalls = 2
  /\ outcome.op = "execute"
  /\ Len(global_qubits_list) = 2
  /\ \A d \in Devices : Len(queues[d]) = 2
  /\ nswaps = <<0, 1>>

\* C17: a pass of set_gates that is left with fewer than nglobal candidates
\* closes its group with the candidates and the lowest target qubits of the
\* current gate, exactly as many as are missing.
C17_PadsLowestTargets ==
  [][pc = "set_gates" =>
       LET a == ConsumeWhileLarge(sg_gate, all_qubits \ Targets(sg_gate), <<>>)
           missing == nglobal - Cardinality(a.g)
       IN (~a.stop /\ missing > 0 /\ Len(global_qubits_list') > Len(global_qubits_list)) =>
            global_qubits_list'[Len(global_qubits_list')] =
              sorted(a.g \cup Range(SliceTo(sorted(Targets(a.p)), missing)))]_vars

\* C18: whenever the global-qubit set has been assigned, transpose_order is
\* a permutation of the qubits with the global qubits first, both parts
\* ascending, and reverse_transpose_order is its inverse.
C18_TransposeOrders ==
  gq_set =>
    /\ Len(transpose_order) = nqubits
    /\ Range(transpose_order) = all_qubits
    /\ \A i \in 1..nqubits : (transpose_order[i] \in gq) <=> (i <= Cardinality(gq))
    /\ \A i, k \in 1..nqubits :
         (i < k /\ ((i <= Cardinality(gq)) <=> (k <= Cardinality(gq)))) =>
           transpose_order[i] < transpose_order[k]
    /\ Len(reverse_transpose_order) = nqubits
    /\ \A i \in all_qubits : transpose_order[reverse_transpose_order[i + 1] + 1] = i

\* C18 witness: execute has assigned a global-qubit set whose transpose order
\* is not its own inverse.
C18_Witness ==
  /\ pieces # <<>>
  /\ gq = {2}
  /\ transpose_order = <<2, 0, 1>>
  /\ reverse_transpose_order = <<1, 2, 0>>

\* C19: set_gates terminates: every pass of its scheduling loop moves on to a
\* later gate of the sequence, so that the end is reached after at most
\* Len(queue) passes.
C19_EveryPassAdvances ==
  [][(pc = "set_gates" /\ pc' = "set_gates") => sg_gate' > sg_gate]_vars

\* C20: when set_gates has returned, the groups concatenated in group order
\* are the gate sequence, each gate once and in the original order, and
\* every device has one queue per group that holds one copy of each gate of
\* the group, in the same order.
C20_GroupsPartitionQueue ==
  SetGatesReturned =>
    /\ Concat(sg_queues) = [i \in 1..Len(queue) |-> i]
    /\ Len(sg_queues) = Len(global_qubits_list)
    /\ \A d \in Devices :
         /\ Len(queues[d]) = Len(sg_queues)
         /\ \A k \in DOMAIN sg_queues :
              /\ Len(queues[d][k]) = Len(sg_queues[k])
              /\ \A i \in DOMAIN sg_queues[k] :
                   queues[d][k][i].original_gate = sg_queues[k][i]

\* C20 witness: set_gates has returned two groups, of two gates and of one
\* gate, on two devices.
C20_Witness ==
  /\ SetGatesReturned
  /\ Len(queue) = 3
  /\ sg_queues = <<<<1, 2>>, <<3>>>>
  /\ Len(calc_devices) = 2

\* a step of an execute call made while the pieces exist: the call itself, or
\* its rejection
RejectedExecuteStep ==
  /\ pieces # <<>>
  /\ \/ pc = "init"
     \/ pc = "idle" /\ ncalls' # ncalls /\ outcome'.op = "execute"

\* C21: an execute call that is rejected because the pieces exist leaves
\* final_state, the current global-qubit set and the transpose orders as
\* they were before the call.
C21_RejectedExecuteChangesNothing ==
  [][RejectedExecuteStep =>
       /\ UNCHANGED gqvars
       /\ MergedState' = MergedState]_vars

====
